---- MODULE Spec2Model ----
(***************************************************************************)
(* gcpy.core (src/gcpy/core.py): the bpch -> netCDF name harmonisation of  *)
(* convert_bpch_names_to_netcdf_names, the readers open_dataset and        *)
(* open_mfdataset, and compare_varnames.                                   *)
(*                                                                         *)
(* Python strings are TLA+ strings; TLC evaluates Len, SubSeq and \o on    *)
(* them, so substring tests, split("_")[-1] and slicing are computed       *)
(* character by character as the code computes them.                       *)
(***************************************************************************)
EXTENDS Integers, Sequences, FiniteSets, TLC

(* Largest number of data variables of a dataset handed to a function. *)
MaxVars == 2

(* Largest number of file names handed to open_mfdataset. *)
MaxFiles == 2

VARIABLES
  table,          \* which (names, special_vars) pair the function body holds
  ds,             \* the dataset passed in: its data variable names, in order
  inplace,        \* argument inplace
  verbose,        \* argument verbose
  pc,             \* position in the function body
  idx,            \* position of the for loop over ds.data_vars
  oldid,          \* loop locals, as left by the last iteration
  newid,
  idaction,
  newvar,
  old_to_new,     \* dict: variable_name -> new name
  printed,        \* lines written by print()
  ret,            \* the dataset returned
  \* open_dataset and open_mfdataset
  fn,             \* which of the two is called
  filenames,      \* argument filename, or the list filenames
  open_pc,        \* position in the function body
  test_fn,        \* the path whose extension is looked at
  file_extension,
  opener,         \* local _opener
  calls,          \* the readers invoked, in order
  result,         \* what the call gave: a dataset or an exception
  \* compare_varnames
  refdata,        \* argument refdata: <<name, ndim>> per data variable
  devdata,        \* argument devdata
  cmp_pc,         \* position in the function body
  cmp             \* the lists built at lines 159-167

convertVars == <<table, ds, inplace, verbose, pc, idx, oldid, newid,
                 idaction, newvar, old_to_new, ret>>

openVars == <<fn, filenames, open_pc, test_fn, file_extension, opener,
              calls, result>>

compareVars == <<refdata, devdata, cmp_pc, cmp>>

vars == <<convertVars, printed, openVars, compareVars>>

(* A Python local that has not been assigned yet. *)
Unbound == "<unbound>"

(* Nothing returned yet. *)
None == "<None>"

(* The value of the variables of a function that is not the one called. *)
NotCalled == "<not called>"

(***************************************************************************)
(* String primitives of Python used by the function.                       *)
(***************************************************************************)

(* key in s : substring containment. *)
Contains(key, s) ==
  \E p \in 1..(Len(s) - Len(key) + 1) : SubSeq(s, p, p + Len(key) - 1) = key

(* Positions of the separator "_" in s. *)
UnderscoreAt(s) ==
  {p \in 1..Len(s) : SubSeq(s, p, p) = "_"}

Max(S) ==
  CHOOSE m \in S : \A x \in S : x <= m

Min(S) ==
  CHOOSE m \in S : \A x \in S : m <= x

(* s.split("_", 1)[-1] : the text after the first "_". *)
AfterFirstField(s) ==
  IF UnderscoreAt(s) = {} THEN s
  ELSE SubSeq(s, Min(UnderscoreAt(s)) + 1, Len(s))

(* s.split("_")[-1] : the text after the last "_", all of s without one. *)
LastField(s) ==
  IF UnderscoreAt(s) = {} THEN s
  ELSE SubSeq(s, Max(UnderscoreAt(s)) + 1, Len(s))

(* s[:-1] in place of s[:-2]. *)
DropLastOne(s) ==
  IF Len(s) <= 1 THEN "" ELSE SubSeq(s, 1, Len(s) - 1)

(* s[:-2] : s without its last two characters. *)
DropLastTwo(s) ==
  IF Len(s) <= 2 THEN "" ELSE SubSeq(s, 1, Len(s) - 2)

RECURSIVE Spaces(_)
Spaces(n) ==
  IF n <= 0 THEN "" ELSE " " \o Spaces(n - 1)

(* s.ljust(w) : s padded with spaces on the right to width w. *)
LJust(s, w) ==
  s \o Spaces(w - Len(s))

(***************************************************************************)
(* The names dictionary as <<bpch id, netcdf id, action>>, in declaration  *)
(* order, which is the order "for key in names" visits the keys in (a      *)
(* Python 3.7+ dict iterates in insertion order).                          *)
(***************************************************************************)
names_shipped ==
  << <<"IJ_AVG_S_", "SpeciesConc", "append">>,
     <<"OD_MAP_S_OPD1550", "AODDust550nm_bin1", "replace">>,
     <<"OD_MAP_S_OPD2550", "AODDust550nm_bin2", "replace">>,
     <<"OD_MAP_S_OPD3550", "AODDust550nm_bin3", "replace">>,
     <<"OD_MAP_S_OPD4550", "AODDust550nm_bin4", "replace">>,
     <<"OD_MAP_S_OPD5550", "AODDust550nm_bin5", "replace">>,
     <<"OD_MAP_S_OPD6550", "AODDust550nm_bin6", "replace">>,
     <<"OD_MAP_S_OPD7550", "AODDust550nm_bin7", "replace">>,
     <<"OD_MAP_S_OPSO4550", "AODHyg550nm_SO4", "replace">>,
     <<"OD_MAP_S_OPBC550", "AODHyg550nm_BCPI", "replace">>,
     <<"OD_MAP_S_OPOC550", "AODHyg550nm_OCPI", "replace">>,
     <<"OD_MAP_S_OPSSa550", "AODHyg550nm_SALA", "replace">>,
     <<"OD_MAP_S_OPSSc550", "AODHyg550nm_SALC", "replace">>,
     <<"OD_MAP_S_ODSLA", "AODStratLiquidAer550nm", "replace">>,
     <<"ACETSRCE_ACETbg", "EmisACET_DirectBio", "replace">>,
     <<"ACETSRCE_ACETmb", "EmisACET_MethylBut", "replace">>,
     <<"ACETSRCE_ACETmo", "EmissACET_Monoterp", "replace">>,
     <<"ACETSRCE_ACETop", "EmissACET_Ocean", "replace">>,
     <<"ANTHSRCE_", "Anthro", "append">>,
     <<"BC_ANTH_BLKC", "EmisBC_Anthro", "skip">>,
     <<"BC_BIOB_BLKC", "EmisBC_BioBurn", "skip">>,
     <<"BC_BIOF_BLKC", "EmisBC_Biofuel", "skip">>,
     <<"BIOBSRCE_", "BioBurn", "append">>,
     <<"BIOFSRCE_", "Biofuel", "append">>,
     <<"BIOGSRCE_", "Biogenic", "append">>,
     <<"BXHGHT_S_", "Met", "append">>,
     <<"CHEM_L_S_OH", "OHconcAfterChem", "replace">>,
     <<"CHEM_L_S_HO2", "HO2concAfterChem", "replace">>,
     <<"CHEM_L_S_O1D", "O1DconcAfterChem", "replace">>,
     <<"CHEM_L_S_O", "O3PconcAfterChem", "replace">>,
     <<"CO__SRCE_COanth", "EmisCO_Anthro", "skip">>,
     <<"CO__SRCE_CObb", "EmisCO_BioBurn", "skip">>,
     <<"CO__SRCE_CObf", "EmisCO_Biofuel", "skip">>,
     <<"CO__SRCE_COmono", "EmisCO_Monoterp", "replace">>,
     <<"CO__SRCE_COship", "EmisCO_Ship", "replace">>,
     <<"CV_FLUX_", "CloudConvFlux", "append">>,
     <<"DAO_3D_S_", "Met", "append">>,
     <<"DAO_FLDS_PS_PBL", "Met_PBLH", "skip">>,
     <<"DAO_FLDS_", "Met", "append">>,
     <<"DMS_BIOG_DMS", "EmisDMS_Ocean", "replace">>,
     <<"DRYD_FLX_", "DryDep", "append">>,
     <<"DRYD_VEL_", "DryDepVel", "append">>,
     <<"DUST_SRC_", "TBD", "skip">>,
     <<"DUSTSRCE_DST1", "EmisDST1_Natural", "replace">>,
     <<"DUSTSRCE_DST2", "EmisDST2_Natural", "replace">>,
     <<"DUSTSRCE_DST3", "EmisDST3_Natural", "replace">>,
     <<"DUSTSRCE_DST4", "EmisDST4_Natural", "replace">>,
     <<"DXYP_DXYP", "Met_AREAM2", "replace">>,
     <<"ECIL_SRC_", "TBD", "skip">>,
     <<"ECOB_SRC_", "TBD", "skip">>,
     <<"EW_FLX_S_", "AdvFluxZonal", "append">>,
     <<"FJX_FLUX_", "TBD", "skip">>,
     <<"IJ_24H_S_", "TBD", "skip">>,
     <<"IJ_MAX_S_", "TBD", "skip">>,
     <<"IJ_SOA_S_", "AerMass", "append">>,
     <<"INST_MAP_", "TBD", "skip">>,
     <<"ISRPIA_S_ISORPH", "Chem_PHSAV", "replace">>,
     <<"ISRPIA_S_ISORH+", "Chem_HPLUSSAV", "replace">>,
     <<"ISRPIA_S_ISORH2O", "Chem_WATERSAV", "replace">>,
     <<"JV_MAP_S_", "JNoon", "append">>,
     <<"LFLASH_", "TBD", "skip">>,
     <<"NH3_ANTH_NH3", "EmisNH3_Anthro", "skip">>,
     <<"NH3_NATU_NH3", "EmisNH3_Natural", "replace">>,
     <<"NK_EMISS_", "TBD", "skip">>,
     <<"MC_FRC_S_", "WetLossConvFrac", "append">>,
     <<"NO_AC_S_NO", "EmisNO_Aircraft", "replace">>,
     <<"NO_AN_S_NO", "EmisNO_Anthro", "skip">>,
     <<"NO_FERT_NO", "EmisNO_Fert", "replace">>,
     <<"NO_LI_S_NO", "EmisNO_Lightning", "replace">>,
     <<"NO_SOIL_NO", "EmisNO_Soil", "replace">>,
     <<"NS_FLX_S_", "AdvFluxMerid", "append">>,
     <<"OC_ANTH_ORGC", "EmisOC_Anthro", "replace">>,
     <<"OC_LIMO_LIMO", "TBD", "skip">>,
     <<"OC_MTPA_MTPA", "TBD", "skip">>,
     <<"OC_MTPO_MTPO", "TBD", "skip">>,
     <<"OC_SESQ_SESQ", "TBD", "skip">>,
     <<"OCIL_SRC_", "TBD", "skip">>,
     <<"OCOB_SRC_", "TBD", "skip">>,
     <<"OD_MAP_S_OPD", "Met_OPTD", "replace">>,
     <<"OD_MAP_S_CLDTOT", "Met_CLDF", "replace">>,
     <<"OD_MAP_S_OPTD", "AODDust", "replace">>,
     <<"OD_MAP_S_SD", "AerSurfAreaDust", "replace">>,
     <<"OD_MAP_S_HGSO4", "AerHygroscopicGrowth_SO4", "replace">>,
     <<"OD_MAP_S_HGBC", "AerHygroscopicGrowth_BCPI", "replace">>,
     <<"OD_MAP_S_HGOC", "AerHygroscopicGrowth_OCPI", "replace">>,
     <<"OD_MAP_S_HGSSa", "AerHygroscopicGrowth_SALA", "replace">>,
     <<"OD_MAP_S_HGSSc", "AerHygroscopicGrowth_SALC", "replace">>,
     <<"OD_MAP_S_SSO4", "AerSurfAreaHyg_SO4", "replace">>,
     <<"OD_MAP_S_SBC", "AerSurfAreaHyg_BCPI", "replace">>,
     <<"OD_MAP_S_SOC", "AerSurfAreaHyg_OCPI", "replace">>,
     <<"OD_MAP_S_SSSa", "AerSurfAreaHyg_SALA", "replace">>,
     <<"OD_MAP_S_SSSc", "AerSurfAreaHyg_SALC", "replace">>,
     <<"OD_MAP_S_SASLA", "AerSurfAreaStratLiquid", "replace">>,
     <<"OD_MAP_S_NDSLA", "AerNumDensityStratLiquid", "replace">>,
     <<"OD_MAP_S_ODSPA", "AODPolarStratCloud550nm", "replace">>,
     <<"OD_MAP_S_SASPA", "AerSurfAreaPolarStratCloud", "replace">>,
     <<"OD_MAP_S_NDSPA", "AerNumDensityStratParticulate", "replace">>,
     <<"OD_MAP_S_ISOPAOD", "AODSOAfromAqIsoprene550nm", "replace">>,
     <<"OD_MAP_S_AQAVOL", "AerAqueousVolume", "replace">>,
     <<"PBLDEPTH_", "TBD", "skip">>,
     <<"PEDGE_S_PSURF", "TBD", "skip">>,
     <<"PG_SRCE_", "TBD", "skip">>,
     <<"PG_PP_", "TBD", "skip">>,
     <<"PL_BC_S_BLKC", "ProdBCPIfromBCPO", "replace">>,
     <<"PL_OC_S_ORGC", "ProdOCPIfromOCPO", "replace">>,
     <<"PL_OC_S_ASOA", "Prodfrom", "skip">>,
     <<"PL_OC_S_ISOA", "Prodfrom", "skip">>,
     <<"PL_OC_S_TSOA", "Prodfrom", "skip">>,
     <<"PL_SUL_S_SO2dms", "ProdSO2fromDMSandOH", "replace">>,
     <<"PL_SUL_S_SO2no3", "ProdSO2fromDMSandNO3", "replace">>,
     <<"PL_SUL_S_SO2tot", "ProdSO2fromDMS", "replace">>,
     <<"PL_SUL_S_MSAdms", "ProdMSAfromDMS", "replace">>,
     <<"PL_SUL_S_SO4gas", "ProdSO4fromGasPhase", "replace">>,
     <<"PL_SUL_S_SO4h2o2", "ProdSO4fromH2O2inCloud", "replace">>,
     <<"PL_SUL_S_SO4o3s", "ProdSO4fromO3s", "replace">>,
     <<"PL_SUL_S_SO4o3", "ProdSO4fromO3inCloud", "replace">>,
     <<"PL_SUL_S_SO4ss", "ProdSO4fromO3inSeaSalt", "replace">>,
     <<"PL_SUL_S_SO4dust", "ProdSO4fromOxidationOnDust", "replace">>,
     <<"PL_SUL_S_NITdust", "ProdNITfromHNO3uptakeOnDust", "replace">>,
     <<"PL_SUL_S_H2SO4dus", "ProdSO4fromUptakeOfH2SO4g", "replace">>,
     <<"PL_SUL_S_HNO3ss", "LossHNO3onSeaSalt", "replace">>,
     <<"PL_SUL_S_SO4hobr", "ProdSO4fromHOBrInCloud", "replace">>,
     <<"PL_SUL_S_SO4sro3", "ProdSO4fromSRO3", "replace">>,
     <<"PL_SUL_S_SO4srhob", "ProdSO4fromSRHObr", "replace">>,
     <<"PORL_L_S_PCO_CH4", "ProdCObyCH4", "skip">>,
     <<"PORL_L_S_PCO_NMVO", "ProdCObyNMVOC", "skip">>,
     <<"PORL_L_S_PO3", "Prod_O3", "replace">>,
     <<"PORL_L_S_PCO", "Prod_CO", "replace">>,
     <<"PORL_L_S_PSO4", "Prod_SO4", "replace">>,
     <<"PORL_L_S_POx", "Prod_Ox", "replace">>,
     <<"PORL_L_S_LO3", "Loss_O3", "replace">>,
     <<"PORL_L_S_LCO", "Loss_CO", "replace">>,
     <<"PORL_L_S_LOx", "Loss_Ox", "replace">>,
     <<"RADMAP_", "TBD", "skip">>,
     <<"RN_SRCE_Rn", "EmisRn_Soil", "replace">>,
     <<"RN_SRCE_Pb", "PbFromRnDecay", "replace">>,
     <<"RN_SRCE_Be7", "EmisBe_Cosmic", "replace">>,
     <<"RN_DECAY_", "RadDecay", "append">>,
     <<"SALTSRCE_SALA", "EmisSALA_Natural", "replace">>,
     <<"SALTSRCE_SALC", "EmisSALC_Natural", "replace">>,
     <<"SHIP_SSS_", "TBD", "skip">>,
     <<"SO2_AC_S_SO2", "EmisSO2_Aircraft", "replace">>,
     <<"SO2_AN_S_SO2", "EmisSO2_Anthro", "skip">>,
     <<"SO2_EV_S_SO2", "EmisSO2_EVOL", "replace">>,
     <<"SO2_NV_S_SO2", "EmisSO2_NVOL", "replace">>,
     <<"SO2_SHIP_SO2", "EmisSO2_Ship", "replace">>,
     <<"SO4_AN_S_SO4", "EmisSO4_Anthro", "skip">>,
     <<"SO4_BIOF_SO4", "EmisSO4_Biofuel", "replace">>,
     <<"SF_EMIS_", "TBD", "skip">>,
     <<"SS_EMIS_", "TBD", "skip">>,
     <<"THETA_S_THETA", "Met_THETA", "replace">>,
     <<"TIME_TPS_TIMETROP", "TBD", "skip">>,
     <<"TMS_COND_", "TBD", "skip">>,
     <<"TMS_COAG_", "TBD", "skip">>,
     <<"TMS_NUCL_", "TBD", "skip">>,
     <<"TMS_AQOX_", "TBD", "skip">>,
     <<"AERO_FIX_", "TBD", "skip">>,
     <<"TMS_SOA_", "TBD", "skip">>,
     <<"TR_PAUSE_TP_HGHT", "Met_TropHt", "replace">>,
     <<"TR_PAUSE_TP_LEVEL", "Met_TropLev", "replace">>,
     <<"TR_PAUSE_TP_PRESS", "Met_TROPP", "replace">>,
     <<"UP_FLX_S_", "AdvFluxVert", "append">>,
     <<"WETDCV_S_", "WetLossConv", "append">>,
     <<"WETDLS_S_", "WetLossLS", "append">>,
     <<"PG-PP_S_", "POPS", "append">>,
     <<"NH3_BIOB_NH3", "EmisNH3_BioBurn", "skip">>,
     <<"NH3_BIOF_NH3", "EmisNH3_Biofuel", "skip">>,
     <<"NO_BIOB_NO", "EmisNO_BioBurn", "skip">>,
     <<"NO_BIOF_NO", "EmisNO_Biofuel", "skip">>,
     <<"OC_BIOB_ORGC", "EmisOC_BioBurn", "skip">>,
     <<"OC_BIOF_ORGC", "EmisOC_Biofuel", "skip">>,
     <<"OC_BIOG_ORGC", "EmisOC_Biogenic", "skip">>,
     <<"SO2_BIOB_SO2", "EmisSO2_BioBurn", "skip">>,
     <<"SO2_BIOF_SO2", "EmisSO2_Biofuel", "skip">>>>

(* A special_vars in which the value 'Met_PBLH' is a key in its turn. *)
special_vars_chained ==
  [k \in {"Met_PBL", "Met_PBLH", "AerMassPM25"} |->
     CASE k = "Met_PBL"     -> "Met_PBLH"
       [] k = "Met_PBLH"    -> "Met_PBLHeight"
       [] k = "AerMassPM25" -> "PM25"]

(* Lines 431-444: the special_vars dictionary. *)
special_vars_shipped ==
  [k \in {"AerMassPM25", "AerMassbiogOA", "AerMasssumOA", "AerMasssumOC",
          "AerMassBNO", "AerMassOC", "Met_AIRNUMDE", "Met_UWND", "Met_VWND",
          "Met_CLDTOP", "Met_GWET", "Met_PRECON", "Met_PREACC", "Met_PBL"} |->
     CASE k = "AerMassPM25"   -> "PM25"
       [] k = "AerMassbiogOA" -> "TotalBiogenicOA"
       [] k = "AerMasssumOA"  -> "TotalOA"
       [] k = "AerMasssumOC"  -> "TotalOC"
       [] k = "AerMassBNO"    -> "BetaNO"
       [] k = "AerMassOC"     -> "OC"
       [] k = "Met_AIRNUMDE"  -> "Met_AIRNUMDEN"
       [] k = "Met_UWND"      -> "Met_U"
       [] k = "Met_VWND"      -> "Met_V"
       [] k = "Met_CLDTOP"    -> "Met_CLDTOPS"
       [] k = "Met_GWET"      -> "Met_GWETTOP"
       [] k = "Met_PRECON"    -> "Met_PRECCON"
       [] k = "Met_PREACC"    -> "Met_PRECTOT"
       [] k = "Met_PBL"       -> "Met_PBLH"]

(***************************************************************************)
(* Other tables the same function body can be given: the shipped names in  *)
(* another declaration order, and a special_vars with one more entry.      *)
(***************************************************************************)
Swap(t, a, b) ==
  [k \in 1..Len(t) |-> IF k = a THEN t[b] ELSE IF k = b THEN t[a] ELSE t[k]]

(* Position of the rule with bpch id key in table t. *)
RuleIndex(t, key) ==
  CHOOSE k \in 1..Len(t) : t[k][1] = key

SwapKeys(t, key1, key2) ==
  Swap(t, RuleIndex(t, key1), RuleIndex(t, key2))

(* 'OD_MAP_S_OPD1550' and 'OD_MAP_S_OPD' exchanged. *)
names_swapped ==
  SwapKeys(names_shipped, "OD_MAP_S_OPD1550", "OD_MAP_S_OPD")

With(d, key, value) ==
  [k \in DOMAIN d \cup {key} |-> IF k = key THEN value ELSE d[k]]

(* One more override, keyed on the netcdf id of the 'replace' rule
   'TR_PAUSE_TP_PRESS'. *)
special_vars_extended ==
  With(special_vars_shipped, "Met_TROPP", "Met_TROPPT")

Tables == {"shipped", "swapped", "extended"}

NamesOf(tb) ==
  IF tb = "swapped" THEN names_swapped ELSE names_shipped

SpecialVarsOf(tb) ==
  IF tb = "extended" THEN special_vars_extended ELSE special_vars_shipped

names ==
  NamesOf(table)

special_vars ==
  SpecialVarsOf(table)

(***************************************************************************)
(* Datasets: sequences of distinct data variable names.                    *)
(***************************************************************************)
VariableNames ==
  {"IJ_AVG_S_O3", "BXHGHT_S_N_AIR", "OD_MAP_S_OPD1550", "PORL_L_S_PCO_CH4",
   "DAO_FLDS_PS_PBL", "DAO_FLDS_TROPPRAW", "DAO_FLDS_PBL", "DAO_FLDS_TS",
   "DAO_3D_S_TS", "DRYD_VEL_O3xx", "DRYD_FLX_df", "DRYD_VEL_x",
   "BIOGSRCE_ISOP", "IJ_SOA_S_PM25", "CV_FLUX_CO", "PG-PP_S_POPG",
   "TR_PAUSE_TP_PRESS", "Met_PBL", "PM25"}

Datasets ==
  {d \in UNION {[1..n -> VariableNames] : n \in 0..MaxVars} :
     \A a, b \in 1..Len(d) : a # b => d[a] # d[b]}

(***************************************************************************)
(* The loop body, lines 452-526.                                           *)
(***************************************************************************)
NoEntry == "<no entry>"

(* The loop without lines 453-455. *)
KeepLocals(loc) ==
  loc

(* Lines 453-455: the locals the loop resets for every variable name;
   newvar is not among them. *)
ResetLocals(loc) ==
  [oldid |-> "", newid |-> "", idaction |-> "", newvar |-> loc.newvar]

(* Line 457: positions of the rules of t whose bpch id occurs in
   variable_name. *)
Matches(t, variable_name) ==
  {k \in 1..Len(t) : Contains(t[k][1], variable_name)}

(* The loop without its break: the last matching rule is the one left. *)
BreakAtLast(S) ==
  IF S = {} THEN 0 ELSE Max(S)

(* Lines 456-466: where "for key in names" reaches its break, given the
   set S of positions whose key matches: the first one in declaration
   order; 0 when the loop runs to its end. *)
BreakAt(S) ==
  IF S = {} THEN 0 ELSE Min(S)

NoRule == <<"", "", "">>

RuleAt(t, k) ==
  IF k = 0 THEN NoRule ELSE t[k]

(* The break taken only in the else branch: a 'skip' rule does not stop
   the scan. *)
MatchedRuleAfterSkip(t, variable_name) ==
  RuleAt(t, BreakAt({k \in Matches(t, variable_name) : t[k][3] # "skip"}))

(* The rule at which the scan of the names table t stops for
   variable_name. *)
MatchedRule(t, variable_name) ==
  RuleAt(t, BreakAt(Matches(t, variable_name)))

(* Lines 458-465: the locals after the scan stopped at rule, and the
   warning printed for a 'skip' rule. *)
AtRule(rule, vb, loc) ==
  IF rule = NoRule THEN [loc |-> loc, lines |-> <<>>]
  ELSE IF rule[3] = "skip"
       THEN [loc |-> loc,
             lines |-> IF vb THEN <<"WARNING: skipping " \o rule[1]>>
                       ELSE <<>>]
       ELSE [loc |-> [oldid |-> rule[1], newid |-> rule[2],
                      idaction |-> rule[3], newvar |-> loc.newvar],
             lines |-> <<>>]

(* Lines 456-466. *)
Scan(t, variable_name, vb, loc) ==
  AtRule(MatchedRule(t, variable_name), vb, loc)

(* Line 469. *)
NoDefinition(loc) ==
  loc.oldid = "" \/ loc.newid = "" \/ loc.idaction = ""

(* Lines 487-489 with 'CV_FLUX_' in the place of 'CV_FLX_S_'. *)
UnderscoreFamiliesWithFlux ==
  {"IJ_AVG_S_", "RN_DECAY_", "WETDCV_S_", "WETDLS_S_", "BXHGHT_S_",
   "DAO_FLDS_", "DAO_3D_S_", "PL_SUL_", "CV_FLUX_", "EW_FLX_S_",
   "NS_FLX_S_", "UP_FLX_S_", "MC_FRC_S_", "JV_MAP_S_"}

(* Lines 487-489. *)
UnderscoreFamilies ==
  {"IJ_AVG_S_", "RN_DECAY_", "WETDCV_S_", "WETDLS_S_", "BXHGHT_S_",
   "DAO_FLDS_", "DAO_3D_S_", "PL_SUL_", "CV_FLX_S_", "EW_FLX_S_",
   "NS_FLX_S_", "UP_FLX_S_", "MC_FRC_S_", "JV_MAP_S_"}

(* Line 492 naming the rule id itself. *)
ConflictFieldsById ==
  {"DAO_FLDS_"}

(* Line 492. *)
ConflictFields ==
  {"DAO_FLDS_PS_PBL", "DAO_FLDS_TROPPRAW"}

(* Lines 509-510. *)
SourceFamilies ==
  {"BIOBSRCE_", "BIOFSRCE_", "BIOGSRCE_", "ANTHSRCE_"}

(* Lines 482-483. *)
Varstr(variable_name) ==
  LastField(variable_name)

(* Line 498. *)
AppendUnderscore(nid, varstr) ==
  nid \o "_" \o varstr

(* Line 502. *)
AppendPlain(nid, varstr) ==
  nid \o varstr

(* Line 506. *)
AppendDryDep(nid, varstr) ==
  nid \o "_" \o DropLastTwo(varstr)

(* Line 511 with the two parts exchanged. *)
AppendSourceSwapped(nid, varstr) ==
  "Emis" \o nid \o "_" \o varstr

(* Line 511. *)
AppendSource(nid, varstr) ==
  "Emis" \o varstr \o "_" \o nid

(* Lines 486-519: newvar after the family branches, and whether the
   iteration ends with continue. *)
Family(varstr, variable_name, vb, loc) ==
  IF loc.oldid \in UnderscoreFamilies
  THEN IF loc.oldid \in ConflictFields
       THEN [newvar |-> loc.newvar, continue |-> FALSE,
             lines |-> IF vb THEN <<"Skipping: " \o loc.oldid>> ELSE <<>>]
       ELSE [newvar |-> AppendUnderscore(loc.newid, varstr),
             continue |-> FALSE, lines |-> <<>>]
  ELSE IF loc.oldid = "IJ_SOA_S_"
  THEN [newvar |-> AppendPlain(loc.newid, varstr), continue |-> FALSE,
        lines |-> <<>>]
  ELSE IF Contains("DRYD_", loc.oldid)
  THEN [newvar |-> AppendDryDep(loc.newid, varstr), continue |-> FALSE,
        lines |-> <<>>]
  ELSE IF loc.oldid \in SourceFamilies
  THEN [newvar |-> AppendSource(loc.newid, varstr), continue |-> FALSE,
        lines |-> <<>>]
  ELSE [newvar |-> loc.newvar, continue |-> TRUE,
        lines |-> IF vb
                  THEN <<"WARNING: Nothing defined for: " \o variable_name>>
                  ELSE <<>>]

(* Lines 480-519. *)
Compose(variable_name, vb, loc) ==
  Family(Varstr(variable_name), variable_name, vb, loc)

(* The function without lines 522-523. *)
NoLookup(sv, nv) ==
  nv

(* Lines 522-523, with the override table sv. *)
Lookup(sv, nv) ==
  IF nv \in DOMAIN sv THEN sv[nv] ELSE nv

(* Lines 521-526, after the family branches gave c: an unassigned newvar
   raises UnboundLocalError at line 522. *)
Record(s, c, final) ==
  IF c.continue
  THEN [loc |-> s.loc, entry |-> NoEntry, lines |-> s.lines \o c.lines,
        raised |-> FALSE]
  ELSE IF c.newvar = Unbound
  THEN [loc |-> s.loc, entry |-> NoEntry, lines |-> s.lines \o c.lines,
        raised |-> TRUE]
  ELSE [loc |-> [s.loc EXCEPT !.newvar = final], entry |-> final,
        lines |-> s.lines \o c.lines, raised |-> FALSE]

AppendAction(sv, s, c) ==
  Record(s, c, Lookup(sv, c.newvar))

(* Lines 468-526, after the scan gave s. *)
Branch(sv, s, variable_name, vb) ==
  IF NoDefinition(s.loc)
  THEN [loc |-> s.loc, entry |-> NoEntry, lines |-> s.lines, raised |-> FALSE]
  ELSE IF s.loc.idaction = "replace"
  THEN [loc |-> [s.loc EXCEPT !.newvar = s.loc.newid],
        entry |-> s.loc.newid, lines |-> s.lines, raised |-> FALSE]
  ELSE AppendAction(sv, s, Compose(variable_name, vb, s.loc))

(* One iteration of the loop over ds.data_vars with the tables t and sv:
   the locals it leaves, the entry it puts into old_to_new (NoEntry for
   none), the lines it prints, and whether reading an unassigned newvar
   raised UnboundLocalError. *)
BodyWith(t, sv, variable_name, vb, loc) ==
  Branch(sv, Scan(t, variable_name, vb, ResetLocals(loc)), variable_name, vb)

Body(variable_name, vb, loc) ==
  BodyWith(names, special_vars, variable_name, vb, loc)

(* old_to_new.update({k : v}) *)
Update(d, k, v) ==
  [x \in DOMAIN d \cup {k} |-> IF x = k THEN v ELSE d[x]]

Locals ==
  [oldid |-> oldid, newid |-> newid, idaction |-> idaction, newvar |-> newvar]

(* The functions that are not the one called keep their variables. *)
OpenNotCalled ==
  /\ fn = NotCalled
  /\ filenames = NotCalled
  /\ open_pc = NotCalled
  /\ test_fn = NotCalled
  /\ file_extension = NotCalled
  /\ opener = NotCalled
  /\ calls = <<>>
  /\ result = NotCalled

CompareNotCalled ==
  /\ refdata = NotCalled
  /\ devdata = NotCalled
  /\ cmp_pc = NotCalled
  /\ cmp = NotCalled

ConvertNotCalled ==
  /\ table = NotCalled
  /\ ds = NotCalled
  /\ inplace = NotCalled
  /\ verbose = NotCalled
  /\ pc = NotCalled
  /\ idx = 0
  /\ oldid = NotCalled
  /\ newid = NotCalled
  /\ idaction = NotCalled
  /\ newvar = NotCalled
  /\ old_to_new = [x \in {} |-> ""]
  /\ ret = NotCalled

(***************************************************************************)
(* The call convert_bpch_names_to_netcdf_names(ds, inplace, verbose).      *)
(***************************************************************************)
Init ==
  /\ OpenNotCalled
  /\ CompareNotCalled
  /\ table \in Tables
  /\ ds \in Datasets
  /\ inplace \in BOOLEAN
  /\ verbose \in BOOLEAN
  /\ pc = IF Len(ds) = 0 THEN "rename" ELSE "loop"
  /\ idx = 1
  /\ oldid = Unbound
  /\ newid = Unbound
  /\ idaction = Unbound
  /\ newvar = Unbound
  /\ old_to_new = [x \in {} |-> ""]
  /\ printed = <<>>
  /\ ret = None

(* The effect of one iteration with result r on the state. *)
Store(r) ==
  /\ oldid' = r.loc.oldid
  /\ newid' = r.loc.newid
  /\ idaction' = r.loc.idaction
  /\ newvar' = r.loc.newvar
  /\ printed' = printed \o r.lines
  /\ old_to_new' = IF r.entry = NoEntry THEN old_to_new
                   ELSE Update(old_to_new, ds[idx], r.entry)
  /\ idx' = IF r.raised THEN idx ELSE idx + 1
  /\ pc' = IF r.raised THEN "raised"
           ELSE IF idx + 1 > Len(ds) THEN "rename" ELSE "loop"

(* Lines 450-526: one iteration of "for variable_name in ds.data_vars". *)
LoopBody ==
  /\ pc = "loop"
  /\ idx <= Len(ds)
  /\ Store(Body(ds[idx], verbose, Locals))
  /\ UNCHANGED <<table, ds, inplace, verbose, ret>>
  /\ UNCHANGED <<openVars, compareVars>>

(* Lines 529-536: verbose output after the loop. *)
RECURSIVE Listing(_)
Listing(k) ==
  IF k > Len(ds) THEN <<>>
  ELSE (IF ds[k] \in DOMAIN old_to_new
        THEN <<LJust(ds[k], 25) \o " ==> " \o LJust(old_to_new[ds[k]], 40)>>
        ELSE <<>>) \o Listing(k + 1)

Report ==
  IF verbose
  THEN <<"", "List of bpch names and netCDF names">> \o Listing(1)
       \o <<"", "Renaming variables in the data...">>
  ELSE <<>>

(* The name each variable of ds gets under name_dict. *)
Renamed(d, name_dict) ==
  [k \in 1..Len(d) |->
     IF d[k] \in DOMAIN name_dict THEN name_dict[d[k]] ELSE d[k]]

Distinct(d) ==
  \A a, b \in 1..Len(d) : a # b => d[a] # d[b]

(* Two variables would end up under one name. *)
Conflict(d, name_dict) ==
  ~Distinct(Renamed(d, name_dict))

(* ds.rename called without the inplace argument: its default is a copy. *)
InplaceDefault ==
  FALSE

(* Line 537: the inplace argument handed to ds.rename. *)
InplaceArg ==
  inplace

(* Lines 528-540: ds = ds.rename(name_dict=old_to_new, inplace=inplace);
   return ds.  In-place renaming changes the dataset passed in, otherwise a
   copy is renamed (docstring, lines 241-243). *)
Rename ==
  /\ pc = "rename"
  /\ ~Conflict(ds, old_to_new)
  /\ printed' = printed \o Report
  /\ ret' = Renamed(ds, old_to_new)
  /\ ds' = IF InplaceArg THEN Renamed(ds, old_to_new) ELSE ds
  /\ pc' = "done"
  /\ UNCHANGED <<table, inplace, verbose, idx, oldid, newid, idaction,
                 newvar, old_to_new>>
  /\ UNCHANGED <<openVars, compareVars>>

(* Line 537 when name_dict sends two variables of ds to one name.  What
   ds.rename does then is decided inside xarray; the model stops here and
   says nothing about the dataset afterwards. *)
RenameConflict ==
  /\ pc = "rename"
  /\ Conflict(ds, old_to_new)
  /\ printed' = printed \o Report
  /\ pc' = "rename_conflict"
  /\ UNCHANGED <<table, ds, inplace, verbose, idx, oldid, newid, idaction,
                 newvar, old_to_new, ret>>
  /\ UNCHANGED <<openVars, compareVars>>

Next ==
  \/ LoopBody
  \/ Rename
  \/ RenameConflict

Spec == Init /\ [][Next]_vars

(***************************************************************************)
(* open_dataset(filename) and open_mfdataset(filenames), lines 57-68 and   *)
(* 121-138.                                                                *)
(***************************************************************************)

(* File names the two functions are called with. *)
Filenames ==
  {"run.bpch", "run.nc", "run.nc4", "README", "out.v2/ts", ".bpch",
   "a.bpch.nc", "a.nc.bpch", "run.NC", "run.", "nc"}

FileLists ==
  UNION {[1..n -> Filenames] : n \in 0..MaxFiles}

(* p.rfind(c), counted from 1; 0 when c does not occur in p. *)
RFind(p, c) ==
  Max({0} \cup {i \in 1..Len(p) : SubSeq(p, i, i) = c})

(* The while loop of os.path.splitext: some character between the last
   separator and the last dot is not a dot. *)
HasRoot(p, sepIndex, dotIndex) ==
  \E i \in (sepIndex + 1)..(dotIndex - 1) : SubSeq(p, i, i) # "."

SplitAt(p, sepIndex, dotIndex) ==
  IF dotIndex > sepIndex /\ HasRoot(p, sepIndex, dotIndex)
  THEN <<SubSeq(p, 1, dotIndex - 1), SubSeq(p, dotIndex, Len(p))>>
  ELSE <<p, "">>

(* os.path.splitext(p) on a POSIX path: <<root, extension>>. *)
splitext(p) ==
  SplitAt(p, RFind(p, "/"), RFind(p, "."))

BpchReader(f) ==
  IF f = "open_dataset" THEN "xbpch.open_bpchdataset"
  ELSE "xbpch.open_mfbpchdataset"

NetcdfReader(f) ==
  IF f = "open_dataset" THEN "xr.open_dataset" ELSE "xr.open_mfdataset"

ValueError == "ValueError"

(* The dispatch falling back to the netCDF reader for any extension that
   starts with '.nc'. *)
OpenerGuessed(f, ext) ==
  IF ext = ".bpch" THEN BpchReader(f)
  ELSE IF Len(ext) >= 3 /\ SubSeq(ext, 1, 3) = ".nc" THEN NetcdfReader(f)
  ELSE ValueError

(* Lines 59-66 and 128-135: the reader chosen for the extension, or the
   ValueError raised. *)
Opener(f, ext) ==
  IF ext = ".bpch" THEN BpchReader(f)
  ELSE IF ext = ".nc" THEN NetcdfReader(f)
  ELSE ValueError

InitOpen ==
  /\ ConvertNotCalled
  /\ CompareNotCalled
  /\ printed = <<>>
  /\ fn \in {"open_dataset", "open_mfdataset"}
  /\ filenames \in IF fn = "open_dataset" THEN Filenames ELSE FileLists
  /\ open_pc = IF fn = "open_dataset" THEN "splitext" ELSE "test_fn"
  /\ test_fn = IF fn = "open_dataset" THEN filenames ELSE Unbound
  /\ file_extension = Unbound
  /\ opener = Unbound
  /\ calls = <<>>
  /\ result = None

(* Lines 121-124: test_fn = filenames[0], ValueError on a list without a
   first element. *)
TestFn ==
  /\ open_pc = "test_fn"
  /\ IF Len(filenames) = 0
     THEN /\ open_pc' = "raised"
          /\ result' = ValueError
          /\ UNCHANGED test_fn
     ELSE /\ open_pc' = "splitext"
          /\ test_fn' = filenames[1]
          /\ UNCHANGED result
  /\ UNCHANGED <<fn, filenames, file_extension, opener, calls>>
  /\ UNCHANGED <<convertVars, printed, compareVars>>

(* Lines 57 and 126. *)
SplitExt ==
  /\ open_pc = "splitext"
  /\ file_extension' = splitext(test_fn)[2]
  /\ open_pc' = "dispatch"
  /\ UNCHANGED <<fn, filenames, test_fn, opener, calls, result>>
  /\ UNCHANGED <<convertVars, printed, compareVars>>

(* The effect of the if / elif / else on the state, given its outcome o. *)
Dispatched(o) ==
  IF o = ValueError
  THEN open_pc' = "raised" /\ result' = ValueError /\ UNCHANGED opener
  ELSE open_pc' = "call" /\ opener' = o /\ UNCHANGED result

(* Lines 59-66 and 128-135. *)
Dispatch ==
  /\ open_pc = "dispatch"
  /\ Dispatched(Opener(fn, file_extension))
  /\ UNCHANGED <<fn, filenames, test_fn, file_extension, calls>>
  /\ UNCHANGED <<convertVars, printed, compareVars>>

(* What a reader of xbpch or xarray can give: a dataset, or an exception
   of its own. *)
ReaderOutcomes ==
  {"Dataset", "reader exception"}

(* Lines 68 and 137-138: return _opener(...). *)
CallOpener ==
  /\ open_pc = "call"
  /\ calls' = Append(calls, <<opener, filenames>>)
  /\ \E o \in ReaderOutcomes :
       /\ result' = o
       /\ open_pc' = IF o = "Dataset" THEN "returned" ELSE "raised"
  /\ UNCHANGED <<fn, filenames, test_fn, file_extension, opener>>
  /\ UNCHANGED <<convertVars, printed, compareVars>>

NextOpen ==
  \/ TestFn
  \/ SplitExt
  \/ Dispatch
  \/ CallOpener

SpecOpen == InitOpen /\ [][NextOpen]_vars

(***************************************************************************)
(* compare_varnames(refdata, devdata), lines 157-187.  A dataset is the    *)
(* sequence of its data variables, each <<name, ndim>>.                    *)
(***************************************************************************)

(* The variable names of the two datasets, in the order sorted() puts
   them in. *)
SortedNames ==
  <<"Met_PBLH", "PM25", "SpeciesConc_O3">>

Ranks ==
  {1, 2, 3, 4}

DataVars ==
  {<<SortedNames[k], r>> : k \in 1..Len(SortedNames), r \in Ranks}

RankedDatasets ==
  {d \in UNION {[1..n -> DataVars] : n \in 0..MaxVars} :
     \A a, b \in 1..Len(d) : a # b => d[a][1] # d[b][1]}

(* [k for k in data.data_vars.keys()] *)
Keys(data) ==
  [k \in 1..Len(data) |-> data[k][1]]

Elements(list) ==
  {list[k] : k \in 1..Len(list)}

(* data[v].ndim *)
Ndim(data, v) ==
  data[CHOOSE k \in 1..Len(data) : data[k][1] = v][2]

(* sorted(list(S)) for a set S of variable names. *)
Sorted(S) ==
  SelectSeq(SortedNames, LAMBDA v : v \in S)

(* Line 167. *)
Bucket3D(common, ref, dev) ==
  SelectSeq(common, LAMBDA v : Ndim(dev, v) = 4)

(* Lines 164-167, given commonvars. *)
Buckets(common, ref, dev) ==
  [dimmismatch |-> SelectSeq(common, LAMBDA v : Ndim(ref, v) # Ndim(dev, v)),
   commonvars1D |-> SelectSeq(common, LAMBDA v : Ndim(ref, v) = 2),
   commonvars2D |-> SelectSeq(common, LAMBDA v : Ndim(ref, v) = 3),
   commonvars3D |-> Bucket3D(common, ref, dev)]

(* Lines 159-163, given refvars and devvars. *)
Overlap(refvars, devvars) ==
  [commonvars |-> Sorted(Elements(refvars) \cap Elements(devvars)),
   refonly |-> SelectSeq(refvars, LAMBDA v : v \notin Elements(devvars)),
   devonly |-> SelectSeq(devvars, LAMBDA v : v \notin Elements(refvars))]

RECURSIVE Items(_)
Items(list) ==
  IF Len(list) = 0 THEN ""
  ELSE IF Len(list) = 1 THEN "'" \o list[1] \o "'"
  ELSE "'" \o list[1] \o "', " \o Items(Tail(list))

(* '{}'.format(list) for a list of strings. *)
ListRepr(list) ==
  "[" \o Items(list) \o "]"

(* Lines 171-180: the two lines about variables in one dataset only. *)
OnlyLines(which, list) ==
  IF Len(list) > 0
  THEN <<ToString(Len(list)) \o " variables in " \o which \o " only (skip)",
         "   Variable names: " \o ListRepr(list)>>
  ELSE <<"0 variables in " \o which \o " only">>

(* Lines 181-185. *)
MismatchLines(list) ==
  IF Len(list) > 0
  THEN <<ToString(Len(list)) \o " common variables have different dimensions",
         "   Variable names: " \o ListRepr(list)>>
  ELSE <<"All variables have same dimensions in ref and dev">>

InitCompare ==
  /\ ConvertNotCalled
  /\ OpenNotCalled
  /\ printed = <<>>
  /\ refdata \in RankedDatasets
  /\ devdata \in RankedDatasets
  /\ cmp_pc = "lists"
  /\ cmp = [overlap |-> Unbound, buckets |-> Unbound, ret |-> None]

(* Lines 159-167. *)
BuildLists ==
  /\ cmp_pc = "lists"
  /\ cmp' = [cmp EXCEPT
               !.overlap = Overlap(Keys(refdata), Keys(devdata)),
               !.buckets = Buckets(Overlap(Keys(refdata), Keys(devdata)).commonvars,
                                   refdata, devdata)]
  /\ cmp_pc' = "print"
  /\ UNCHANGED <<refdata, devdata, printed>>
  /\ UNCHANGED <<convertVars, openVars>>

(* Lines 169-187. *)
PrintAndReturn ==
  /\ cmp_pc = "print"
  /\ printed' = printed
       \o <<ToString(Len(cmp.overlap.commonvars)) \o " common variables">>
       \o OnlyLines("ref", cmp.overlap.refonly)
       \o OnlyLines("dev", cmp.overlap.devonly)
       \o MismatchLines(cmp.buckets.dimmismatch)
  /\ cmp' = [cmp EXCEPT !.ret = <<cmp.overlap.commonvars,
                                   cmp.buckets.commonvars1D,
                                   cmp.buckets.commonvars2D,
                                   cmp.buckets.commonvars3D>>]
  /\ cmp_pc' = "returned"
  /\ UNCHANGED <<refdata, devdata>>
  /\ UNCHANGED <<convertVars, openVars>>

NextCompare ==
  \/ BuildLists
  \/ PrintAndReturn

SpecCompare == InitCompare /\ [][NextCompare]_vars

(***************************************************************************)
(* Properties.                                                             *)
(***************************************************************************)

(* Positions of ds the loop is done with. *)
Processed ==
  IF pc \in {"loop", "rename", "rename_conflict"} THEN 1..(idx - 1) ELSE {}

(* Rule k of t is the first in declaration order whose id occurs in n. *)
IsFirstMatch(t, n, k) ==
  /\ Contains(t[k][1], n)
  /\ \A j \in 1..(k - 1) : ~Contains(t[j][1], n)

FirstMatchIn(t, n) ==
  IF \E k \in 1..Len(t) : IsFirstMatch(t, n, k)
  THEN CHOOSE k \in 1..Len(t) : IsFirstMatch(t, n, k)
  ELSE 0

(* For each table and variable name, the position of the first rule in
   declaration order whose id occurs in the name; 0 when there is none. *)
FirstMatch ==
  [tb \in Tables, n \in VariableNames |-> FirstMatchIn(NamesOf(tb), n)]

(* For each table and variable name, how many rule ids occur in the name. *)
MatchCount ==
  [tb \in Tables, n \in VariableNames |->
     Cardinality({k \in 1..Len(NamesOf(tb)) : Contains(NamesOf(tb)[k][1], n)})]

(* The first matching rule of n in the table of this call. *)
FirstRule(n) ==
  RuleAt(names, FirstMatch[table, n])

Overlapping(n) ==
  MatchCount[table, n] >= 2

(* What rule alone says about the entry of n in d, for 'skip' and
   'replace'. *)
DecidedBy(rule, d, n) ==
  /\ rule[3] = "skip" => n \notin DOMAIN d
  /\ rule[3] = "replace" => n \in DOMAIN d /\ d[n] = rule[2]

(* The locals after the iteration for n are those of rule (none for
   'skip'). *)
LocalsFrom(rule) ==
  rule[3] # "skip" =>
    oldid = rule[1] /\ newid = rule[2] /\ idaction = rule[3]

EntryIs(d, n, v) ==
  n \in DOMAIN d /\ d[n] = v

(* C1: a variable name in which two or more rule ids occur gets the outcome
   of the rule that is first in the declaration order of names, and the
   loop locals are those of that rule; with 'OD_MAP_S_OPD1550' declared
   before 'OD_MAP_S_OPD' the name 'OD_MAP_S_OPD1550' becomes
   'AODDust550nm_bin1', with the two rules exchanged it becomes
   'Met_OPTD'. *)
C1_FirstMatchWins ==
  /\ \A i \in Processed :
       Overlapping(ds[i]) => DecidedBy(FirstRule(ds[i]), old_to_new, ds[i])
  /\ \A i \in Processed :
       i = idx - 1 /\ Overlapping(ds[i]) => LocalsFrom(FirstRule(ds[i]))
  /\ \A i \in Processed :
       ds[i] = "OD_MAP_S_OPD1550" =>
         EntryIs(old_to_new, ds[i],
                 IF table = "swapped" THEN "Met_OPTD" ELSE "AODDust550nm_bin1")

C1_Witness ==
  /\ pc = "rename"
  /\ table = "swapped"
  /\ EntryIs(old_to_new, "OD_MAP_S_OPD1550", "Met_OPTD")

SkipFirst(rule, d, n) ==
  rule[3] = "skip" => n \notin DOMAIN d

(* C2: a variable name whose first matching rule is a 'skip' rule has no
   entry in old_to_new, whatever later rules match it. *)
C2_SkipNoEntry ==
  \A i \in Processed : SkipFirst(FirstRule(ds[i]), old_to_new, ds[i])

C2_Witness ==
  /\ pc = "rename"
  /\ \E i \in Processed :
       /\ ds[i] = "PORL_L_S_PCO_CH4"
       /\ Overlapping(ds[i])
       /\ ds[i] \notin DOMAIN old_to_new
  /\ \E i \in Processed :
       ds[i] = "DAO_FLDS_PS_PBL" /\ ds[i] \notin DOMAIN old_to_new

NoMatch(n) ==
  MatchCount[table, n] = 0

(* C3: the iteration for a variable name in which no rule id occurs adds
   nothing to old_to_new and goes on to the next name or to the renaming. *)
C3_UnmatchedNoEntry ==
  [][pc = "loop" /\ NoMatch(ds[idx]) =>
       /\ old_to_new' = old_to_new
       /\ ds[idx] \notin DOMAIN old_to_new'
       /\ idx' = idx + 1
       /\ pc' \in {"loop", "rename"}]_vars

C3_Witness ==
  /\ pc = "loop"
  /\ idx = 2
  /\ ds[1] = "Met_PBL"
  /\ NoMatch(ds[1])
  /\ DOMAIN old_to_new = {}

(* s is what follows the last "_" of n. *)
IsSuffix(n, s) ==
  /\ Len(s) < Len(n)
  /\ ~Contains("_", s)
  /\ SubSeq(n, Len(n) - Len(s), Len(n)) = "_" \o s

Tails(n) ==
  {SubSeq(n, p + 1, Len(n)) : p \in 1..Len(n)}

Suffixes(n) ==
  {s \in Tails(n) : IsSuffix(n, s)}

ReplaceFirst(rule, sv, d, n) ==
  rule[3] = "replace" => EntryIs(d, n, Lookup(sv, rule[2]))

(* C4: a variable name whose first matching rule is a 'replace' rule is
   recorded under the rule's netcdf id, or under special_vars[id] when the
   id is a key of special_vars. *)
C4_ReplaceThenOverride ==
  \A i \in Processed :
     ReplaceFirst(FirstRule(ds[i]), special_vars, old_to_new, ds[i])

SeparatorRules ==
  {"IJ_AVG_S_", "RN_DECAY_", "WETDCV_S_", "WETDLS_S_", "BXHGHT_S_",
   "DAO_FLDS_", "DAO_3D_S_", "EW_FLX_S_", "NS_FLX_S_", "UP_FLX_S_",
   "MC_FRC_S_", "JV_MAP_S_"}

SeparatorFirst(rule, sv, d, n) ==
  rule[1] \in SeparatorRules =>
    \E s \in Suffixes(n) : EntryIs(d, n, Lookup(sv, rule[2] \o "_" \o s))

(* C5: a variable name whose first matching rule is one of the separator
   style append rules is recorded under id + "_" + suffix (after the
   override lookup), the suffix being what follows the last "_" of the
   whole name: 'IJ_AVG_S_O3' becomes 'SpeciesConc_O3', and
   'BXHGHT_S_N_AIR' becomes 'Met_AIR', not 'Met_N_AIR'. *)
C5_AppendWithSeparator ==
  /\ \A i \in Processed :
       SeparatorFirst(FirstRule(ds[i]), special_vars, old_to_new, ds[i])
  /\ \A i \in Processed :
       ds[i] = "IJ_AVG_S_O3" => EntryIs(old_to_new, ds[i], "SpeciesConc_O3")

C5_Witness ==
  /\ pc = "rename"
  /\ EntryIs(old_to_new, "BXHGHT_S_N_AIR", "Met_AIR")
  /\ EntryIs(old_to_new, "IJ_AVG_S_O3", "SpeciesConc_O3")

(* h is s without its last two characters (empty for a short s). *)
IsChopped(s, h) ==
  IF Len(s) <= 2 THEN h = ""
  ELSE Len(h) = Len(s) - 2 /\ s = h \o SubSeq(s, Len(s) - 1, Len(s))

Heads(s) ==
  {SubSeq(s, 1, q) : q \in 0..Len(s)}

DryDepFirst(rule, sv, d, n) ==
  rule[1] \in {"DRYD_FLX_", "DRYD_VEL_"} =>
    \E s \in Suffixes(n) : \E h \in Heads(s) :
       IsChopped(s, h) /\ EntryIs(d, n, Lookup(sv, rule[2] \o "_" \o h))

(* C6: a variable name whose first matching rule is DRYD_FLX_ or DRYD_VEL_
   is recorded under id + "_" + the suffix without its last two characters:
   'DRYD_VEL_O3xx' becomes 'DryDepVel_O3', and a suffix of one or two
   characters leaves the id followed by a bare "_". *)
C6_DryDepStripsTwo ==
  /\ \A i \in Processed :
       DryDepFirst(FirstRule(ds[i]), special_vars, old_to_new, ds[i])
  /\ \A i \in Processed :
       /\ ds[i] = "DRYD_VEL_O3xx" => EntryIs(old_to_new, ds[i], "DryDepVel_O3")
       /\ ds[i] = "DRYD_FLX_df" => EntryIs(old_to_new, ds[i], "DryDep_")
       /\ ds[i] = "DRYD_VEL_x" => EntryIs(old_to_new, ds[i], "DryDepVel_")

C6_Witness ==
  /\ pc = "rename"
  /\ EntryIs(old_to_new, "DRYD_VEL_O3xx", "DryDepVel_O3")
  /\ EntryIs(old_to_new, "DRYD_VEL_x", "DryDepVel_")

SourceFirst(rule, sv, d, n) ==
  rule[1] \in {"BIOBSRCE_", "BIOFSRCE_", "BIOGSRCE_", "ANTHSRCE_"} =>
    \E s \in Suffixes(n) :
       EntryIs(d, n, Lookup(sv, "Emis" \o s \o "_" \o rule[2]))

(* C7: a variable name whose first matching rule is BIOBSRCE_, BIOFSRCE_,
   BIOGSRCE_ or ANTHSRCE_ is recorded under "Emis" + suffix + "_" + id:
   'BIOGSRCE_ISOP' becomes 'EmisISOP_Biogenic'. *)
C7_SourceComposition ==
  /\ \A i \in Processed :
       SourceFirst(FirstRule(ds[i]), special_vars, old_to_new, ds[i])
  /\ \A i \in Processed :
       ds[i] = "BIOGSRCE_ISOP" => EntryIs(old_to_new, ds[i], "EmisISOP_Biogenic")

C7_Witness ==
  /\ pc = "rename"
  /\ EntryIs(old_to_new, "BIOGSRCE_ISOP", "EmisISOP_Biogenic")

(* The name the variable at position k of d has after renaming by
   name_dict. *)
NewName(d, name_dict, k) ==
  IF d[k] \in DOMAIN name_dict THEN name_dict[d[k]] ELSE d[k]

(* C9: a call that returns hands back a dataset with as many variables as
   it was given, each key of old_to_new under its mapped name and every
   other variable under its own; with inplace=False the dataset passed in
   keeps its names, with inplace=True it is the one renamed. *)
C9_RenameFrame ==
  [][pc = "rename" /\ pc' = "done" =>
       /\ Len(ret') = Len(ds)
       /\ \A k \in 1..Len(ds) : ret'[k] = NewName(ds, old_to_new, k)
       /\ inplace => ds' = ret'
       /\ ~inplace => ds' = ds]_vars

C9_Witness ==
  /\ pc = "done"
  /\ inplace
  /\ ds = <<"SpeciesConc_O3", "PM25">>
  /\ ret = ds
  /\ DOMAIN old_to_new = {"IJ_AVG_S_O3"}

(* Locals before the first iteration. *)
FreshLocals ==
  [oldid |-> Unbound, newid |-> Unbound, idaction |-> Unbound,
   newvar |-> Unbound]

EntryOf(d, n) ==
  IF n \in DOMAIN d THEN d[n] ELSE NoEntry

(* For each table, variable name and value of verbose, the result of the
   loop body for that name when it is the first one visited. *)
BodyFirst ==
  [tb \in Tables, n \in VariableNames, vb \in BOOLEAN |->
     BodyWith(NamesOf(tb), SpecialVarsOf(tb), n, vb, FreshLocals)]

(* Iteration result r puts e into old_to_new. *)
Gives(r, e) ==
  ~r.raised /\ r.entry = e

(* C10: what old_to_new holds for a variable name is what the loop body
   gives for that name when it is the first one visited, with verbose on
   and with verbose off: no local carries a value from an earlier name into
   it, so the mapping is the same for every order of the names. *)
C10_OrderIndependent ==
  /\ pc # "raised"
  /\ \A i \in Processed : \A vb \in BOOLEAN :
       Gives(BodyFirst[table, ds[i], vb], EntryOf(old_to_new, ds[i]))

C10_Witness ==
  /\ pc = "rename"
  /\ ds = <<"IJ_AVG_S_O3", "DAO_FLDS_TROPPRAW">>
  /\ newvar = "Met_TROPPRAW"
  /\ EntryIs(old_to_new, "IJ_AVG_S_O3", "SpeciesConc_O3")

Values(d) ==
  {d[k] : k \in DOMAIN d}

(* Names the override lookup can be given: the keys and values of sv, the
   variable names, and the names composed so far. *)
LookupArguments(sv) ==
  DOMAIN sv \cup Values(sv) \cup VariableNames \cup Values(old_to_new)
    \cup {newvar}

Idempotent(sv, n) ==
  Lookup(sv, Lookup(sv, n)) = Lookup(sv, n)

(* C11: the override lookup (special_vars[n] when n is a key, n otherwise)
   gives the same name applied twice as applied once, for every name: no
   value of special_vars is a key of special_vars. *)
C11_OverrideIdempotent ==
  /\ \A n \in LookupArguments(special_vars) : Idempotent(special_vars, n)
  /\ Values(special_vars) \cap DOMAIN special_vars = {}

C11_Witness ==
  /\ pc = "rename"
  /\ table = "shipped"
  /\ EntryIs(old_to_new, "DAO_FLDS_PBL", "Met_PBLH")
  /\ Lookup(special_vars, "Met_PBL") = "Met_PBLH"
  /\ Lookup(special_vars, "Met_PBLH") = "Met_PBLH"

EndsWith(f, e) ==
  Len(e) <= Len(f) /\ SubSeq(f, Len(f) - Len(e) + 1, Len(f)) = e

(* f is a root followed by the extension e (a dot and then neither a dot
   nor a "/"): some non-dot character of the root follows its last "/". *)
HasExtension(f, e) ==
  /\ EndsWith(f, e)
  /\ \E i \in 1..(Len(f) - Len(e)) :
       /\ SubSeq(f, i, i) \notin {".", "/"}
       /\ \A j \in i..(Len(f) - Len(e)) : SubSeq(f, j, j) # "/"

(* The file name whose extension decides: filename, or the first of
   filenames. *)
DecidingName ==
  IF fn = "open_dataset" THEN filenames ELSE filenames[1]

NoNames ==
  fn = "open_mfdataset" /\ Len(filenames) = 0

OpenFinished ==
  open_pc \in {"returned", "raised"}

(* The one reader invoked is r, and it was given the argument. *)
Invoked(r) ==
  Len(calls) = 1 /\ calls[1][1] = r /\ calls[1][2] = filenames

Refused ==
  open_pc = "raised" /\ result = ValueError /\ calls = <<>>

(* C12: open_dataset and open_mfdataset invoke the BPCH reader exactly when
   the extension of the file name (of the first file name for
   open_mfdataset) is '.bpch' and the netCDF reader exactly when it is
   '.nc'; with any other extension, '.nc4' and none included, and with an
   empty list, they raise ValueError and no reader has been invoked. *)
C12_ExtensionDispatch ==
  /\ open_pc # "raised" \/ result # ValueError \/ calls = <<>>
  /\ ~OpenFinished => calls = <<>>
  /\ OpenFinished =>
       IF NoNames THEN Refused
       ELSE IF HasExtension(DecidingName, ".bpch")
       THEN Invoked(IF fn = "open_dataset" THEN "xbpch.open_bpchdataset"
                    ELSE "xbpch.open_mfbpchdataset")
       ELSE IF HasExtension(DecidingName, ".nc")
       THEN Invoked(IF fn = "open_dataset" THEN "xr.open_dataset"
                    ELSE "xr.open_mfdataset")
       ELSE Refused

C12_Witness ==
  /\ fn = "open_mfdataset"
  /\ filenames = <<"run.nc", "run.nc4">>
  /\ open_pc = "returned"
  /\ calls = <<<<"xr.open_mfdataset", <<"run.nc", "run.nc4">>>>>>

(* C13: a variable name that contains 'DAO_FLDS_PS_PBL' or
   'DAO_FLDS_TROPPRAW' has no entry in old_to_new, although the append rule
   'DAO_FLDS_' matches it; 'DAO_FLDS_TROPPRAW' is not mapped to
   'Met_TROPPRAW'. *)
C13_ConflictFieldsExcluded ==
  /\ \A i \in Processed :
       Contains("DAO_FLDS_PS_PBL", ds[i]) \/ Contains("DAO_FLDS_TROPPRAW", ds[i])
         => ds[i] \notin DOMAIN old_to_new
  /\ ~EntryIs(old_to_new, "DAO_FLDS_TROPPRAW", "Met_TROPPRAW")

(* The append rules with a composition of their own: with "_", without a
   separator, dry deposition, emission sources. *)
ComposedRules ==
  SeparatorRules \cup {"IJ_SOA_S_"} \cup {"DRYD_FLX_", "DRYD_VEL_"}
    \cup {"BIOBSRCE_", "BIOFSRCE_", "BIOGSRCE_", "ANTHSRCE_"}

AppendRules(t) ==
  {t[k][1] : k \in {j \in 1..Len(t) : t[j][3] = "append"}}

(* For each table, the append rules outside every composition family. *)
UncomposedRules ==
  [tb \in Tables |-> AppendRules(NamesOf(tb)) \ ComposedRules]

(* A variable name that the append rule key is the first to match. *)
Probe(key) ==
  key \o "X"

ProbedBy(t, key) ==
  /\ FirstMatchIn(t, Probe(key)) # 0
  /\ t[FirstMatchIn(t, Probe(key))][1] = key

(* For each table, the append rules whose probe gets no entry from the
   loop body. *)
RulesWithoutEntry ==
  [tb \in Tables |->
     {key \in AppendRules(NamesOf(tb)) :
        /\ ProbedBy(NamesOf(tb), key)
        /\ Gives(BodyWith(NamesOf(tb), SpecialVarsOf(tb), Probe(key), FALSE,
                          FreshLocals), NoEntry)}]

RulesWithEntry ==
  [tb \in Tables |->
     {key \in AppendRules(NamesOf(tb)) :
        /\ ProbedBy(NamesOf(tb), key)
        /\ ~Gives(BodyWith(NamesOf(tb), SpecialVarsOf(tb), Probe(key), FALSE,
                           FreshLocals), NoEntry)}]

(* The iteration for the current name adds no entry and goes on. *)
StepWithoutEntry ==
  /\ old_to_new' = old_to_new
  /\ ds[idx] \notin DOMAIN old_to_new'
  /\ idx' = idx + 1
  /\ pc' \in {"loop", "rename"}

StepWithEntry ==
  /\ ds[idx] \in DOMAIN old_to_new'
  /\ idx' = idx + 1
  /\ pc' \in {"loop", "rename"}

AppendStep(rule) ==
  rule[3] = "append" =>
    IF rule[1] \in {"CV_FLUX_", "PG-PP_S_"} THEN StepWithoutEntry
    ELSE rule[1] \in ComposedRules /\ StepWithEntry

(* C14: the iteration for a variable name whose first matching rule is an
   append rule outside the composition families ('CV_FLUX_' and 'PG-PP_S_'
   are the two of the table) adds nothing to old_to_new and goes on to the
   next name; the iteration for a name whose first matching rule is an
   append rule of a composition family adds an entry. *)
C14_AppendWithoutFamily ==
  [][/\ UncomposedRules[table] = {"CV_FLUX_", "PG-PP_S_"}
     /\ RulesWithoutEntry[table] = {"CV_FLUX_", "PG-PP_S_"}
     /\ RulesWithEntry[table] = AppendRules(names) \cap ComposedRules
     /\ pc = "loop" => AppendStep(FirstRule(ds[idx]))]_vars

C14_Witness ==
  /\ pc = "rename"
  /\ ds = <<"IJ_SOA_S_PM25", "CV_FLUX_CO">>
  /\ oldid = "CV_FLUX_"
  /\ idaction = "append"
  /\ DOMAIN old_to_new = {"IJ_SOA_S_PM25"}

(* sv[c] when c is a key of sv, c otherwise. *)
Overridden(sv, c) ==
  IF c \in DOMAIN sv THEN sv[c] ELSE c

(* The candidates an append rule of a composition family composes for the
   name n. *)
Candidates(rule, n) ==
  IF rule[1] \in SeparatorRules
  THEN {rule[2] \o "_" \o s : s \in Suffixes(n)}
  ELSE IF rule[1] = "IJ_SOA_S_"
  THEN {rule[2] \o s : s \in Suffixes(n)}
  ELSE IF rule[1] \in {"DRYD_FLX_", "DRYD_VEL_"}
  THEN {rule[2] \o "_" \o h :
          h \in UNION {{g \in Heads(s) : IsChopped(s, g)} : s \in Suffixes(n)}}
  ELSE {"Emis" \o s \o "_" \o rule[2] : s \in Suffixes(n)}

ComposedFirst(rule, sv, d, n) ==
  rule[3] = "append" /\ rule[1] \in ComposedRules =>
    \E c \in Candidates(rule, n) : EntryIs(d, n, Overridden(sv, c))

(* C15: a variable name whose first matching rule is an append rule of a
   composition family is recorded under special_vars[candidate] when the
   composed candidate is a key of special_vars and under the candidate
   otherwise; 'IJ_SOA_S_' composes id + suffix without separator, so
   'IJ_SOA_S_PM25' is recorded as 'PM25', and 'DAO_FLDS_PBL' as 'Met_PBLH'.
   A name that is a key of special_vars and matches no rule has no entry. *)
C15_OverrideOnCandidates ==
  /\ \A i \in Processed :
       ComposedFirst(FirstRule(ds[i]), special_vars, old_to_new, ds[i])
  /\ \A i \in Processed :
       /\ ds[i] = "IJ_SOA_S_PM25" => EntryIs(old_to_new, ds[i], "PM25")
       /\ ds[i] = "DAO_FLDS_PBL" => EntryIs(old_to_new, ds[i], "Met_PBLH")
  /\ \A i \in Processed :
       ds[i] \in DOMAIN special_vars /\ NoMatch(ds[i])
         => ds[i] \notin DOMAIN old_to_new

C15_Witness ==
  /\ pc = "rename"
  /\ ds = <<"IJ_SOA_S_PM25", "Met_PBL">>
  /\ "Met_PBL" \in DOMAIN special_vars
  /\ old_to_new = [x \in {"IJ_SOA_S_PM25"} |-> "PM25"]

CommonNames ==
  Elements(Keys(refdata)) \cap Elements(Keys(devdata))

(* list holds its elements once each, in sorted order. *)
IsSortedSet(list) ==
  \A a, b \in 1..Len(list) :
     a < b => \E i, j \in 1..Len(SortedNames) :
                 i < j /\ SortedNames[i] = list[a] /\ SortedNames[j] = list[b]

(* Every variable of list has rank r in both datasets. *)
RankInBoth(list, r) ==
  \A v \in Elements(list) :
     v \in CommonNames /\ Ndim(refdata, v) = r /\ Ndim(devdata, v) = r

(* C16: of the lists compare_varnames returns, commonvars holds exactly the
   names present in both datasets, sorted and once each, and commonvars1D,
   commonvars2D and commonvars3D are pairwise disjoint sublists of it whose
   variables have rank 2, 3 and 4 in the reference and in the development
   dataset alike, also when a common variable differs in rank between the
   two. *)
C16_RankBuckets ==
  cmp_pc = "returned" =>
    /\ Elements(cmp.ret[1]) = CommonNames
    /\ IsSortedSet(cmp.ret[1])
    /\ RankInBoth(cmp.ret[2], 2)
    /\ RankInBoth(cmp.ret[3], 3)
    /\ RankInBoth(cmp.ret[4], 4)
    /\ Elements(cmp.ret[2]) \cap Elements(cmp.ret[3]) = {}
    /\ Elements(cmp.ret[2]) \cap Elements(cmp.ret[4]) = {}
    /\ Elements(cmp.ret[3]) \cap Elements(cmp.ret[4]) = {}

====
